---- MODULE Spec2Model ----
(***************************************************************************)
(* Model of app.py (Flask + psycopg2): the lexical query-safety gate       *)
(* is_query_safe and the request handlers execute_query, list_tables and   *)
(* table_schema, each of which opens its own database connection and       *)
(* closes it in a finally block.                                           *)
(*                                                                         *)
(* A text is a sequence of one-character strings, so that stripping,       *)
(* upper-casing and the regular expressions are computed character by      *)
(* character, as Python computes them.                                     *)
(***************************************************************************)
EXTENDS Integers, Sequences, FiniteSets, TLC

\* ------------------------------------------------------------------ bounds

\* Threads serving requests at once (app.run(threaded=True): one per request).
NumWorkers == 2
\* Requests received in one behaviour of the concurrent scenario.
MaxRequests == 2
\* Fragments concatenated into a query text in the gate scenario.
MaxFrags == 5
\* Rows a statement returns in the rows scenario.
MaxRows == 2

\* ------------------------------------------------------------- characters

Lowercase == <<"a","b","c","d","e","f","g","h","i","j","k","l","m",
               "n","o","p","q","r","s","t","u","v","w","x","y","z">>
Uppercase == <<"A","B","C","D","E","F","G","H","I","J","K","L","M",
               "N","O","P","Q","R","S","T","U","V","W","X","Y","Z">>
Digits == {"0","1","2","3","4","5","6","7","8","9"}

Range(s) == { s[i] : i \in DOMAIN s }

\* str.strip() and \s: the whitespace characters of the modelled alphabet.
Whitespace == {" ", "\n", "\t"}

\* \w of Python's re on str: letters, digits and the underscore.
WordChars == Range(Lowercase) \cup Range(Uppercase) \cup Digits \cup {"_"}
IsWordChar(c) == c \in WordChars

\* str.upper() on one character.
ToUpper == [c \in Range(Lowercase) |-> Uppercase[CHOOSE i \in DOMAIN Lowercase : Lowercase[i] = c]]
UpperChar(c) == IF c \in DOMAIN ToUpper THEN ToUpper[c] ELSE c

\* str.upper()
Upper(s) == [i \in DOMAIN s |-> UpperChar(s[i])]

\* str.strip(): leading and trailing whitespace removed.
Strip(s) ==
  LET keep == { i \in DOMAIN s : s[i] \notin Whitespace }
  IN IF keep = {} THEN <<>>
     ELSE LET lo == CHOOSE i \in keep : \A j \in keep : i <= j
              hi == CHOOSE i \in keep : \A j \in keep : j <= i
          IN SubSeq(s, lo, hi)

\* Whether pattern p occurs in s starting at index i.
MatchAt(s, i, p) ==
  /\ i >= 1
  /\ i + Len(p) - 1 <= Len(s)
  /\ \A k \in 1..Len(p) : s[i + k - 1] = p[k]

\* The least index j >= i with p at j, or Len(s) + 1 when there is none.
FindFrom(s, i, p) ==
  LET hits == { j \in i..Len(s) : MatchAt(s, j, p) }
  IN IF hits = {} THEN Len(s) + 1
     ELSE CHOOSE j \in hits : \A k \in hits : j <= k

\* ------------------------------------------------------- is_query_safe

\* re.sub(r'--.*', '', s): from each "--" up to, not including, the next
\* newline ('.' does not match a newline).
RECURSIVE LineScan(_, _)
LineScan(s, i) ==
  IF i > Len(s) THEN <<>>
  ELSE IF MatchAt(s, i, <<"-", "-">>)
    THEN LineScan(s, FindFrom(s, i, <<"\n">>))
    ELSE <<s[i]>> \o LineScan(s, i + 1)

RemoveLineComments(s) == LineScan(s, 1)

\* re.sub(r'/\*.*?\*/', '', s, flags=re.DOTALL): from each "/*" to the
\* nearest "*/" that starts at least two characters later; a "/*" with no
\* such "*/" is left in place.
RECURSIVE BlockScan(_, _)
BlockScan(s, i) ==
  IF i > Len(s) THEN <<>>
  ELSE IF MatchAt(s, i, <<"/", "*">>) /\ FindFrom(s, i + 2, <<"*", "/">>) <= Len(s)
    THEN BlockScan(s, FindFrom(s, i + 2, <<"*", "/">>) + 2)
    ELSE <<s[i]>> \o BlockScan(s, i + 1)

RemoveBlockComments(s) == BlockScan(s, 1)

\* query_upper after lines 49-53.
query_upper(query) == RemoveBlockComments(RemoveLineComments(Upper(Strip(query))))

KwINSERT == <<"I","N","S","E","R","T">>
KwUPDATE == <<"U","P","D","A","T","E">>
KwDELETE == <<"D","E","L","E","T","E">>
KwDROP == <<"D","R","O","P">>
KwALTER == <<"A","L","T","E","R">>
KwCREATE == <<"C","R","E","A","T","E">>
KwTRUNCATE == <<"T","R","U","N","C","A","T","E">>
KwREPLACE == <<"R","E","P","L","A","C","E">>
KwPRAGMA == <<"P","R","A","G","M","A">>
KwATTACH == <<"A","T","T","A","C","H">>
KwDETACH == <<"D","E","T","A","C","H">>
KwVACUUM == <<"V","A","C","U","U","M">>
KwGRANT == <<"G","R","A","N","T">>
KwREVOKE == <<"R","E","V","O","K","E">>
KwSELECT == <<"S","E","L","E","C","T">>
KwWITH == <<"W","I","T","H">>

dangerous_keywords ==
  << KwINSERT, KwUPDATE, KwDELETE, KwDROP, KwALTER, KwCREATE, KwTRUNCATE,
     KwREPLACE, KwPRAGMA, KwATTACH, KwDETACH, KwVACUUM, KwGRANT, KwREVOKE >>

\* \b at the gap before index i (i = 1 .. Len(s) + 1).
Boundary(s, i) ==
  LET before == i > 1 /\ IsWordChar(s[i - 1])
      after == i <= Len(s) /\ IsWordChar(s[i])
  IN before # after

\* re.search(r'\b' + keyword + r'\b', s)
SearchWord(s, keyword) ==
  \E i \in 1..Len(s) :
    /\ MatchAt(s, i, keyword)
    /\ Boundary(s, i)
    /\ Boundary(s, i + Len(keyword))

\* re.match(r'^\s*(SELECT|WITH)\b', s)
MatchSelectOrWith(s) ==
  LET rest == { i \in DOMAIN s : s[i] \notin Whitespace }
      start == IF rest = {} THEN Len(s) + 1
               ELSE CHOOSE i \in rest : \A j \in rest : i <= j
  IN \E kw \in {KwSELECT, KwWITH} :
       MatchAt(s, start, kw) /\ Boundary(s, start + Len(kw))

\* The index in dangerous_keywords of the first keyword the loop of lines
\* 62-64 finds, or 0.
FirstDangerous(s) ==
  LET found == { k \in DOMAIN dangerous_keywords : SearchWord(s, dangerous_keywords[k]) }
  IN IF found = {} THEN 0 ELSE CHOOSE k \in found : \A j \in found : k <= j

ReasonOnlySelect == "Only SELECT queries (including CTEs with WITH, UNION, JOINs) are allowed"
ReasonSafe == "Query is safe"

\* is_query_safe(query): (is_safe, message); a forbidden-keyword message is
\* kept as the keyword it names.
is_query_safe(query) ==
  LET q == query_upper(query)
      k == FirstDangerous(q)
  IN IF k # 0
       THEN [safe |-> FALSE, forbidden |-> dangerous_keywords[k], message |-> "Query contains forbidden keyword"]
     ELSE IF ~MatchSelectOrWith(q)
       THEN [safe |-> FALSE, forbidden |-> <<>>, message |-> ReasonOnlySelect]
     ELSE [safe |-> TRUE, forbidden |-> <<>>, message |-> ReasonSafe]

\* ------------------------------------------------ rows and their JSON form

\* A value psycopg2 hands back in a row: None, an int or a str.
PyNone == [t |-> "none", n |-> 0, s |-> ""]
PyInt(n) == [t |-> "int", n |-> n, s |-> ""]
PyStr(s) == [t |-> "str", n |-> 0, s |-> s]

\* A JSON cell of the response: null or a string.
JsonNull == [null |-> TRUE, s |-> ""]
JsonStr(s) == [null |-> FALSE, s |-> s]

DigitStr == <<"0","1","2","3","4","5","6","7","8","9">>

\* str(n) for a non-negative int: its decimal digits.
RECURSIVE IntStr(_)
IntStr(n) == IF n < 10 THEN DigitStr[n + 1] ELSE IntStr(n \div 10) \o DigitStr[(n % 10) + 1]

\* str(v) for a value that is not None.
PyStrOf(v) == IF v.t = "int" THEN IntStr(v.n) ELSE v.s

\* Line 146 without its test for None: str(v) whatever v is.
SerializeCellAlwaysStr(v) == JsonStr(IF v.t = "none" THEN "None" ELSE PyStrOf(v))

\* Line 146, one cell: str(v) if v is not None else None.
SerializeCell(v) == IF v.t # "none" THEN JsonStr(PyStrOf(v)) ELSE JsonNull

\* Line 146, one row: a RealDictRow is a sequence of (key, value) pairs in
\* the order of the projection.
SerializeRow(row) == [i \in DOMAIN row |-> [k |-> row[i].k, v |-> SerializeCell(row[i].v)]]

\* Line 141: columns = list(rows[0].keys()) if rows else [].
ColumnsOf(rows) == IF rows # <<>> THEN [i \in DOMAIN rows[1] |-> rows[1][i].k] ELSE <<>>

\* Lines 144-154: the JSON body of a successful execute_query.
ResultPayload(rows) ==
  LET results == [i \in DOMAIN rows |-> SerializeRow(rows[i])]
  IN [columns |-> ColumnsOf(rows), rows |-> results, count |-> Len(results)]

\* ---------------------------------------------------------------- state

Workers == 1..NumWorkers

VARIABLES
  scen,      \* which input domain the requests are drawn from
  pc,        \* where each worker thread is in its handler
  req,       \* the request each worker is serving
  conn,      \* the handler's local `conn`: 0 is None, else a connection
  live,      \* the connections that are open
  resp,      \* the response the handler has built (returned at "done")
  classified,\* whether is_query_safe was called during the request
  attempts,  \* calls of get_db_connection during the request
  ran,       \* calls of cursor.execute during the request
  rows,      \* the handler's local `rows` after fetchall
  served,    \* requests received so far
  nextConn   \* the identity of the next connection psycopg2.connect makes

vars == <<scen, pc, req, conn, live, resp, classified, attempts, ran, rows, served, nextConn>>

NoResp == [status |-> 0, error |-> "", keyword |-> <<>>, payload |-> <<>>]
Response(status, error, keyword, payload) ==
  [status |-> status, error |-> error, keyword |-> keyword, payload |-> payload]

\* Lines 157, 182, 232: jsonify({'error': f'Error: {str(e)}'}), 500.
ErrorResponse(e) == Response(500, e, <<>>, <<>>)

\* ------------------------------------------------------------- requests

\* A request: the route (op); for execute_query what request.get_json()
\* finds (body) and the query text; for table_schema the table name; and
\* how the database answers the statements the handler sends (engine: "ok",
\* "exec_error" when cursor.execute raises, "fetch_error" when
\* fetchall raises) with the rows it holds for them.
Request(op, body, text, table, engine, result) ==
  [op |-> op, body |-> body, text |-> text, table |-> table, engine |-> engine, result |-> result]

NoReq == Request("none", "none", <<>>, "", "ok", <<>>)

Cell(k, v) == [k |-> k, v |-> v]

FragSELECT == KwSELECT
FragWITH == KwWITH
FragDrop == <<"d","r","o","p">>
FragEXPLAIN == <<"E","X","P","L","A","I","N">>
FragUpdatedAt == <<"u","p","d","a","t","e","d","_","a","t">>
FragX == <<"x">>
FragDashes == <<"-","-">>
FragOpen == <<"/","*">>
FragClose == <<"*","/">>
FragNewline == <<"\n">>
FragQuote == <<"'">>
FragCommentedDashes == <<"/","*","-","-","*","/">>

Fragments ==
  { FragSELECT, FragWITH, FragDrop, FragEXPLAIN, FragUpdatedAt, FragX, FragDashes,
    FragOpen, FragClose, FragNewline, FragQuote, FragCommentedDashes }

RECURSIVE Concat(_)
Concat(fs) == IF fs = <<>> THEN <<>> ELSE Head(fs) \o Concat(Tail(fs))

\* The query texts of the gate scenario: up to MaxFrags fragments in a row.
GateTexts == { Concat(fs) : fs \in UNION { [1..n -> Fragments] : n \in 0..MaxFrags } }

TextSelect1 == KwSELECT \o <<" ", "1">>
TextDropT == <<" ">> \o FragDrop \o <<" ", "t">>
TextExplain == FragEXPLAIN \o <<" ">> \o KwSELECT
TextWith == <<"w","i","t","h">> \o <<" ", "t">>
TextBlank == <<" ", "\n">>

\* The values of the rows scenario.
CellValues == { PyNone, PyInt(1), PyInt(12), PyStr("None"), PyStr("null") }
ColumnLists == { <<"x">>, <<"y", "x">> }

RowsOver(cols) == { [i \in DOMAIN cols |-> Cell(cols[i], f[i])] : f \in [DOMAIN cols -> CellValues] }

\* Every result of up to MaxRows rows over one of the column lists.
ResultSets == UNION { UNION { [1..n -> RowsOver(cols)] : n \in 0..MaxRows } : cols \in ColumnLists }

OneRow == << <<Cell("x", PyInt(1))>> >>
TableRows == << <<Cell("table_name", PyStr("logs"))>>, <<Cell("table_name", PyStr("users"))>> >>

\* The catalog of the modelled database: the rows that the two statements of
\* table_schema (lines 195-205 and 210-215) return for a table.
ColumnRows(table) ==
  IF table = "users"
    THEN << [column_name |-> "id", data_type |-> "integer", is_nullable |-> "NO"],
            [column_name |-> "name", data_type |-> "text", is_nullable |-> "YES"] >>
    ELSE <<>>
PrimaryKeyRows(table) == IF table = "users" THEN <<"id">> ELSE <<>>
\* %s::regclass raises for a name that is no relation.
IsRelation(table) == table = "users"

ExecuteQueryInputs ==
  { Request("execute_query", b, <<>>, "", "ok", <<>>) : b \in {"notjson", "nokey", "nonstring"} }
  \cup { Request("execute_query", "text", t, "", "ok", <<>>) :
           t \in {TextBlank, TextDropT, TextExplain, TextWith} }
  \cup { Request("execute_query", "text", TextSelect1, "", "ok", OneRow) }
  \cup { Request("execute_query", "text", TextSelect1, "", e, <<>>) : e \in {"exec_error", "fetch_error"} }

ListTablesInputs ==
  { Request("list_tables", "none", <<>>, "", e, TableRows) : e \in {"ok", "exec_error"} }

TableSchemaInputs ==
  { Request("table_schema", "none", <<>>, "users", e, <<>>) : e \in {"ok", "exec_error"} }
  \cup { Request("table_schema", "none", <<>>, "nosuch", "ok", <<>>) }

CommonInputs == ExecuteQueryInputs \cup ListTablesInputs \cup TableSchemaInputs

Inputs(s) ==
  CASE s = "gate" -> CommonInputs \cup
         { Request("execute_query", "text", t, "", "ok", <<>>) : t \in GateTexts }
    [] s = "rows" -> CommonInputs \cup
         { Request("execute_query", "text", TextSelect1, "", "ok", r) : r \in ResultSets }
    [] OTHER -> CommonInputs

\* The concurrent scenario runs every worker; the other two run one request.
ActiveWorkers(s) == IF s = "conc" THEN Workers ELSE {1}
Quota(s) == IF s = "conc" THEN MaxRequests ELSE 1

\* ------------------------------------------------------------- handlers

\* Flask hands a request to a thread, which enters the route's handler
\* (lines 121, 165, 190: conn = None).
Receive(w) ==
  /\ w \in ActiveWorkers(scen)
  /\ pc[w] \in {"idle", "done"}
  /\ served < Quota(scen)
  /\ \E r \in Inputs(scen) :
       /\ req' = [req EXCEPT ![w] = r]
       /\ pc' = [pc EXCEPT ![w] = IF r.op = "execute_query" THEN "validate" ELSE "connect"]
  /\ conn' = [conn EXCEPT ![w] = 0]
  /\ resp' = [resp EXCEPT ![w] = NoResp]
  /\ classified' = [classified EXCEPT ![w] = FALSE]
  /\ attempts' = [attempts EXCEPT ![w] = 0]
  /\ ran' = [ran EXCEPT ![w] = 0]
  /\ rows' = [rows EXCEPT ![w] = <<>>]
  /\ served' = served + 1
  /\ UNCHANGED <<scen, live, nextConn>>

\* Lines 123-132 without the test of line 126: an empty query is classified.
ValidateOutcomeNoEmptyCheck(r) ==
  IF r.body = "notjson" THEN [next |-> "finally", classified |-> FALSE, resp |-> ErrorResponse("Error: get_json")]
  ELSE IF r.body = "nonstring" THEN [next |-> "finally", classified |-> FALSE, resp |-> ErrorResponse("Error: no attribute strip")]
  ELSE LET query == IF r.body = "nokey" THEN <<>> ELSE Strip(r.text)
           verdict == is_query_safe(query)
       IN IF ~verdict.safe
            THEN [next |-> "finally", classified |-> TRUE,
                  resp |-> Response(403, verdict.message, verdict.forbidden, <<>>)]
            ELSE [next |-> "connect", classified |-> TRUE, resp |-> NoResp]

\* execute_query, lines 123-132: read the JSON body, strip the query, refuse
\* an empty one, classify. request.get_json() on a body that is no JSON,
\* and .strip() on a query that is no string, raise inside the try.
ValidateOutcome(r) ==
  IF r.body = "notjson" THEN [next |-> "finally", classified |-> FALSE, resp |-> ErrorResponse("Error: get_json")]
  ELSE IF r.body = "nonstring" THEN [next |-> "finally", classified |-> FALSE, resp |-> ErrorResponse("Error: no attribute strip")]
  ELSE LET query == IF r.body = "nokey" THEN <<>> ELSE Strip(r.text)
       IN IF query = <<>>
            THEN [next |-> "finally", classified |-> FALSE, resp |-> Response(400, "No query provided", <<>>, <<>>)]
          ELSE LET verdict == is_query_safe(query)
               IN IF ~verdict.safe
                    THEN [next |-> "finally", classified |-> TRUE,
                          resp |-> Response(403, verdict.message, verdict.forbidden, <<>>)]
                    ELSE [next |-> "connect", classified |-> TRUE, resp |-> NoResp]

EQ_Validate(w) ==
  /\ pc[w] = "validate"
  /\ LET out == ValidateOutcome(req[w])
     IN /\ pc' = [pc EXCEPT ![w] = out.next]
        /\ classified' = [classified EXCEPT ![w] = out.classified]
        /\ resp' = [resp EXCEPT ![w] = out.resp]
  /\ UNCHANGED <<scen, req, conn, live, attempts, ran, rows, served, nextConn>>

\* get_db_connection handing out one module-level connection instead of a
\* new one per call.
get_db_connection_shared(w, after) ==
  /\ attempts' = [attempts EXCEPT ![w] = @ + 1]
  /\ \/ /\ conn' = [conn EXCEPT ![w] = 1]
        /\ live' = live \cup {1}
        /\ nextConn' = nextConn + 1
        /\ pc' = [pc EXCEPT ![w] = after]
        /\ UNCHANGED resp
     \/ /\ resp' = [resp EXCEPT ![w] = ErrorResponse("Error: connect")]
        /\ pc' = [pc EXCEPT ![w] = "finally"]
        /\ UNCHANGED <<conn, live, nextConn>>

\* get_db_connection (lines 23-31) as called at lines 135, 174 and 192:
\* psycopg2.connect returns a new connection, or the call raises (no
\* DATABASE_URL, server unreachable or refusing) and conn stays None.
get_db_connection(w, after) ==
  /\ attempts' = [attempts EXCEPT ![w] = @ + 1]
  /\ \/ /\ conn' = [conn EXCEPT ![w] = nextConn]
        /\ live' = live \cup {nextConn}
        /\ nextConn' = nextConn + 1
        /\ pc' = [pc EXCEPT ![w] = after]
        /\ UNCHANGED resp
     \/ /\ resp' = [resp EXCEPT ![w] = ErrorResponse("Error: connect")]
        /\ pc' = [pc EXCEPT ![w] = "finally"]
        /\ UNCHANGED <<conn, live, nextConn>>

\* The close at the end of the try block instead of in a finally: reached
\* only when the handler succeeded.
CloseOnlyOnSuccess(w) ==
  /\ live' = IF conn[w] # 0 /\ resp[w].status = 200 THEN live \ {conn[w]} ELSE live
  /\ pc' = [pc EXCEPT ![w] = "done"]

\* Lines 158-160, 183-185, 233-235: finally: if conn: conn.close(); the
\* response built before is then returned to the caller.
CloseInFinally(w) ==
  /\ live' = IF conn[w] # 0 THEN live \ {conn[w]} ELSE live
  /\ pc' = [pc EXCEPT ![w] = "done"]

EQ_Connect(w) ==
  /\ pc[w] = "connect"
  /\ req[w].op = "execute_query"
  /\ get_db_connection(w, "execute")
  /\ UNCHANGED <<scen, req, classified, ran, rows, served>>

\* Lines 136-137: cursor.execute(query) with the stripped original text.
EQ_Execute(w) ==
  /\ pc[w] = "execute"
  /\ req[w].op = "execute_query"
  /\ ran' = [ran EXCEPT ![w] = @ + 1]
  /\ IF req[w].engine = "exec_error"
       THEN /\ resp' = [resp EXCEPT ![w] = ErrorResponse("Error: execute")]
            /\ pc' = [pc EXCEPT ![w] = "finally"]
       ELSE /\ pc' = [pc EXCEPT ![w] = "fetch"]
            /\ UNCHANGED resp
  /\ UNCHANGED <<scen, req, conn, live, classified, attempts, rows, served, nextConn>>

\* Lines 140-154: fetchall, columns, the serialized rows, the response.
EQ_Fetch(w) ==
  /\ pc[w] = "fetch"
  /\ req[w].op = "execute_query"
  /\ IF req[w].engine = "fetch_error"
       THEN /\ resp' = [resp EXCEPT ![w] = ErrorResponse("Error: fetch")]
            /\ UNCHANGED rows
       ELSE /\ rows' = [rows EXCEPT ![w] = req[w].result]
            /\ resp' = [resp EXCEPT ![w] = Response(200, "", <<>>, ResultPayload(req[w].result))]
  /\ pc' = [pc EXCEPT ![w] = "finally"]
  /\ UNCHANGED <<scen, req, conn, live, classified, attempts, ran, served, nextConn>>

EQ_Finally(w) ==
  /\ pc[w] = "finally"
  /\ req[w].op = "execute_query"
  /\ CloseInFinally(w)
  /\ UNCHANGED <<scen, req, conn, resp, classified, attempts, ran, rows, served, nextConn>>

\* list_tables, line 174.
LT_Connect(w) ==
  /\ pc[w] = "connect"
  /\ req[w].op = "list_tables"
  /\ get_db_connection(w, "execute")
  /\ UNCHANGED <<scen, req, classified, ran, rows, served>>

\* list_tables, lines 175-180.
LT_Execute(w) ==
  /\ pc[w] = "execute"
  /\ req[w].op = "list_tables"
  /\ ran' = [ran EXCEPT ![w] = @ + 1]
  /\ IF req[w].engine = "exec_error"
       THEN /\ resp' = [resp EXCEPT ![w] = ErrorResponse("Error: execute")]
            /\ UNCHANGED rows
       ELSE /\ rows' = [rows EXCEPT ![w] = req[w].result]
            /\ resp' = [resp EXCEPT ![w] =
                 Response(200, "", <<>>, [tables |-> [i \in DOMAIN req[w].result |-> req[w].result[i][1].v.s]])]
  /\ pc' = [pc EXCEPT ![w] = "finally"]
  /\ UNCHANGED <<scen, req, conn, live, classified, attempts, served, nextConn>>

LT_Finally(w) ==
  /\ pc[w] = "finally"
  /\ req[w].op = "list_tables"
  /\ CloseInFinally(w)
  /\ UNCHANGED <<scen, req, conn, resp, classified, attempts, ran, rows, served, nextConn>>

\* table_schema, line 192.
TS_Connect(w) ==
  /\ pc[w] = "connect"
  /\ req[w].op = "table_schema"
  /\ get_db_connection(w, "execute")
  /\ UNCHANGED <<scen, req, classified, ran, rows, served>>

\* table_schema, lines 193-207: the columns of the table.
TS_Columns(w) ==
  /\ pc[w] = "execute"
  /\ req[w].op = "table_schema"
  /\ ran' = [ran EXCEPT ![w] = @ + 1]
  /\ IF req[w].engine = "exec_error"
       THEN /\ resp' = [resp EXCEPT ![w] = ErrorResponse("Error: execute")]
            /\ pc' = [pc EXCEPT ![w] = "finally"]
            /\ UNCHANGED rows
       ELSE /\ rows' = [rows EXCEPT ![w] = ColumnRows(req[w].table)]
            /\ pc' = [pc EXCEPT ![w] = "fetch"]
            /\ UNCHANGED resp
  /\ UNCHANGED <<scen, req, conn, live, classified, attempts, served, nextConn>>

\* Lines 220-227: one schema entry per column row.
SchemaOf(colrows, primary_keys) ==
  [i \in DOMAIN colrows |->
     [column |-> colrows[i].column_name,
      type |-> colrows[i].data_type,
      nullable |-> colrows[i].is_nullable = "YES",
      primary_key |-> colrows[i].column_name \in Range(primary_keys)]]

\* table_schema, lines 209-230: the primary key, then the schema.
TS_PrimaryKeys(w) ==
  /\ pc[w] = "fetch"
  /\ req[w].op = "table_schema"
  /\ ran' = [ran EXCEPT ![w] = @ + 1]
  /\ IF ~IsRelation(req[w].table)
       THEN resp' = [resp EXCEPT ![w] = ErrorResponse("Error: execute")]
       ELSE resp' = [resp EXCEPT ![w] =
              Response(200, "", <<>>,
                       [table |-> req[w].table,
                        schema |-> SchemaOf(rows[w], PrimaryKeyRows(req[w].table))])]
  /\ pc' = [pc EXCEPT ![w] = "finally"]
  /\ UNCHANGED <<scen, req, conn, live, classified, attempts, rows, served, nextConn>>

TS_Finally(w) ==
  /\ pc[w] = "finally"
  /\ req[w].op = "table_schema"
  /\ CloseInFinally(w)
  /\ UNCHANGED <<scen, req, conn, resp, classified, attempts, ran, rows, served, nextConn>>

\* ------------------------------------------------------- specifications

InitFor(s) ==
  /\ scen = s
  /\ pc = [w \in Workers |-> "idle"]
  /\ req = [w \in Workers |-> NoReq]
  /\ conn = [w \in Workers |-> 0]
  /\ live = {}
  /\ resp = [w \in Workers |-> NoResp]
  /\ classified = [w \in Workers |-> FALSE]
  /\ attempts = [w \in Workers |-> 0]
  /\ ran = [w \in Workers |-> 0]
  /\ rows = [w \in Workers |-> <<>>]
  /\ served = 0
  /\ nextConn = 1

Init == InitFor("conc")
InitGate == InitFor("gate")
InitRows == InitFor("rows")

Next ==
  \E w \in Workers :
    \/ Receive(w)
    \/ EQ_Validate(w)
    \/ EQ_Connect(w)
    \/ EQ_Execute(w)
    \/ EQ_Fetch(w)
    \/ EQ_Finally(w)
    \/ LT_Connect(w)
    \/ LT_Execute(w)
    \/ LT_Finally(w)
    \/ TS_Connect(w)
    \/ TS_Columns(w)
    \/ TS_PrimaryKeys(w)
    \/ TS_Finally(w)

\* The steps of worker w's handler from get_db_connection on.
DbStep(w) ==
  \/ EQ_Connect(w)
  \/ EQ_Execute(w)
  \/ EQ_Fetch(w)
  \/ EQ_Finally(w)
  \/ LT_Connect(w)
  \/ LT_Execute(w)
  \/ LT_Finally(w)
  \/ TS_Connect(w)
  \/ TS_Columns(w)
  \/ TS_PrimaryKeys(w)
  \/ TS_Finally(w)

\* Requests handled by concurrent threads.
Spec == Init /\ [][Next]_vars
\* One execute_query over every text built from the fragments.
SpecGate == InitGate /\ [][Next]_vars
\* One execute_query over every result set.
SpecRows == InitRows /\ [][Next]_vars

\* ------------------------------------- the statement as the database reads it

\* The characters of s that PostgreSQL's lexer reads outside comments, from
\* index i on: "--" opens a comment that runs to the end of the line, "/*" one
\* that runs to its "*/" (nested when nest, as PostgreSQL nests them; not
\* nested as in standard SQL otherwise), and neither opens a comment inside
\* a '...' literal or inside the other kind of comment. A comment reads as
\* one space. The inside of a literal is kept when keepStr.
RECURSIVE DbScan(_, _, _, _, _, _)
DbScan(s, i, mode, depth, nest, keepStr) ==
  IF i > Len(s) THEN <<>>
  ELSE CASE mode = "code" ->
         IF MatchAt(s, i, <<"-", "-">>) THEN <<" ">> \o DbScan(s, i + 2, "line", 0, nest, keepStr)
         ELSE IF MatchAt(s, i, <<"/", "*">>) THEN <<" ">> \o DbScan(s, i + 2, "block", 1, nest, keepStr)
         ELSE IF s[i] = "'" THEN <<"'">> \o DbScan(s, i + 1, "str", 0, nest, keepStr)
         ELSE <<s[i]>> \o DbScan(s, i + 1, "code", 0, nest, keepStr)
       [] mode = "line" ->
         IF s[i] = "\n" THEN <<"\n">> \o DbScan(s, i + 1, "code", 0, nest, keepStr)
         ELSE DbScan(s, i + 1, "line", 0, nest, keepStr)
       [] mode = "block" ->
         IF nest /\ MatchAt(s, i, <<"/", "*">>) THEN DbScan(s, i + 2, "block", depth + 1, nest, keepStr)
         ELSE IF MatchAt(s, i, <<"*", "/">>)
           THEN IF depth = 1 THEN DbScan(s, i + 2, "code", 0, nest, keepStr)
                ELSE DbScan(s, i + 2, "block", depth - 1, nest, keepStr)
         ELSE DbScan(s, i + 1, "block", depth, nest, keepStr)
       [] OTHER ->
         IF s[i] = "'" THEN <<"'">> \o DbScan(s, i + 1, "code", 0, nest, keepStr)
         ELSE (IF keepStr THEN <<s[i]>> ELSE <<>>) \o DbScan(s, i + 1, "str", 0, nest, keepStr)

\* The statement outside comments, and outside comments and literals.
DbOutsideComments(s, nest) == DbScan(s, 1, "code", 0, nest, TRUE)
DbTokens(s, nest) == DbScan(s, 1, "code", 0, nest, FALSE)

\* The first token of s: the word that follows its leading whitespace
\* (empty when something other than a word does).
FirstToken(s) ==
  LET rest == { i \in DOMAIN s : s[i] \notin Whitespace }
      start == IF rest = {} THEN Len(s) + 1
               ELSE CHOOSE i \in rest : \A j \in rest : i <= j
      stops == { i \in start..Len(s) : ~IsWordChar(s[i]) }
      stop == IF stops = {} THEN Len(s) + 1
              ELSE CHOOSE i \in stops : \A j \in stops : i <= j
  IN SubSeq(s, start, stop - 1)

ForbiddenWords == Range(dangerous_keywords)
IsForbidden(word) == word \in ForbiddenWords
HasForbiddenToken(s) == \E k \in DOMAIN dangerous_keywords : SearchWord(s, dangerous_keywords[k])
Occurs(s, p) == \E i \in 1..Len(s) : MatchAt(s, i, p)

\* The text execute_query hands to cursor.execute and to is_query_safe.
QueryOf(w) == Strip(req[w].text)
HasQuery(w) == req[w].op = "execute_query" /\ req[w].body = "text"
\* is_query_safe has returned for w's request.
Classified(w) == HasQuery(w) /\ classified[w] /\ pc[w] # "validate"
\* ... and returned False.
Rejected(w) == Classified(w) /\ resp[w].status = 403

\* ---------------------------------------------------------------- claims

\* C1 (as claimed): no false acceptance. A text that holds a forbidden
\* keyword, in any letter case, as a standalone token outside every comment
\* and literal as the database delimits them (whether or not it nests block
\* comments) is rejected by is_query_safe, so that it never reaches
\* cursor.execute.
C1_NoFalseAcceptance ==
  \A w \in Workers :
    (/\ HasQuery(w)
     /\ ran[w] > 0
     /\ \A nest \in BOOLEAN : HasForbiddenToken(Upper(DbTokens(QueryOf(w), nest))))
    => FALSE

\* C2 (as claimed): a text whose first token, after its leading whitespace
\* and leading comments, is a forbidden keyword in any letter case is
\* rejected. (The claim adds that the reason names a forbidden keyword of
\* the text; the rejection itself is what is stated here.)
C2_LeadingForbiddenRejected ==
  \A w \in Workers :
    (/\ HasQuery(w)
     /\ Classified(w)
     /\ \A nest \in BOOLEAN : IsForbidden(FirstToken(Upper(DbOutsideComments(QueryOf(w), nest)))))
    => Rejected(w)

\* Every block comment and every literal of s is closed: a character placed
\* on a line after s is read as code.
Terminated(s) ==
  \A nest \in BOOLEAN :
    LET t == DbTokens(s \o <<"\n", "0">>, nest)
    IN Len(t) > 0 /\ t[Len(t)] = "0"

\* C3 (as claimed): a text that begins with SELECT or WITH and holds
\* forbidden keywords, but only inside its (closed) comments or inside a
\* longer identifier (none stands as a token outside the comments), is Safe.
C3_CommentedKeywordSafe ==
  \A w \in Workers :
    (/\ HasQuery(w)
     /\ Classified(w)
     /\ FirstToken(Upper(QueryOf(w))) \in {KwSELECT, KwWITH}
     /\ \E kw \in ForbiddenWords : Occurs(Upper(QueryOf(w)), kw)
     /\ Terminated(QueryOf(w))
     /\ \A nest \in BOOLEAN : ~HasForbiddenToken(Upper(DbOutsideComments(QueryOf(w), nest))))
    => ~Rejected(w)

\* C4 (as claimed): a text whose first token after whitespace and comment
\* stripping, ignoring case, is a word other than SELECT and WITH is
\* rejected.
C4_OnlyReadPrefixSafe ==
  \A w \in Workers :
    (/\ HasQuery(w)
     /\ Classified(w)
     /\ \A nest \in BOOLEAN :
          FirstToken(Upper(DbOutsideComments(QueryOf(w), nest))) \notin {<<>>, KwSELECT, KwWITH})
    => Rejected(w)

\* C5: an execute_query whose query is empty after stripping is answered
\* 'No query provided' without is_query_safe being called, one that
\* is_query_safe rejects is answered with its message, and in neither case
\* is get_db_connection called or a statement executed.
C5_ValidationBeforeConnection ==
  \A w \in Workers :
    HasQuery(w) =>
      /\ QueryOf(w) = <<>> =>
           /\ ~classified[w]
           /\ attempts[w] = 0 /\ ran[w] = 0 /\ conn[w] = 0
           /\ pc[w] \in {"validate", "finally", "done"}
           /\ pc[w] # "validate" => resp[w] = Response(400, "No query provided", <<>>, <<>>)
      /\ (QueryOf(w) # <<>> /\ ~is_query_safe(QueryOf(w)).safe) =>
           /\ attempts[w] = 0 /\ ran[w] = 0 /\ conn[w] = 0
           /\ pc[w] \in {"validate", "finally", "done"}
           /\ pc[w] # "validate" =>
                /\ resp[w].status = 403
                /\ resp[w].error = is_query_safe(QueryOf(w)).message
                /\ resp[w].keyword = is_query_safe(QueryOf(w)).forbidden

C5_Witness ==
  \E w1, w2 \in Workers :
    /\ HasQuery(w1) /\ pc[w1] = "done" /\ resp[w1].status = 400
    /\ HasQuery(w2) /\ pc[w2] = "done" /\ resp[w2].status = 403

\* C6: whatever way a handler leaves (success, rejection, connection
\* failure, execution or fetch error), the connection it opened is closed
\* when the caller has the response; the open connections are exactly those
\* of the handlers between their connect and their finally, so that none is
\* open once every request has completed.
C6_NoConnectionLeak ==
  /\ \A w \in Workers : pc[w] = "done" => conn[w] \notin live
  /\ live = { conn[w] : w \in { v \in Workers : conn[v] # 0 /\ pc[v] \in {"execute", "fetch", "finally"} } }
  /\ (\A w \in Workers : pc[w] \in {"idle", "done"}) => live = {}

C6_Witness ==
  /\ served = MaxRequests
  /\ nextConn > NumWorkers
  /\ live = {}
  /\ \A w \in Workers :
       /\ pc[w] = "done"
       /\ resp[w] = ErrorResponse("Error: execute")

\* The request is an execute_query whose query is_query_safe accepts and the
\* engine runs without error.
SafeAndValid(w) ==
  /\ HasQuery(w)
  /\ req[w].engine = "ok"
  /\ QueryOf(w) # <<>> /\ is_query_safe(QueryOf(w)).safe

ExclusiveConnections ==
  \A w1, w2 \in Workers : (w1 # w2 /\ conn[w1] # 0) => conn[w1] # conn[w2]

\* A safe and valid request whose connection was established has, once
\* completed, the success response of its own result.
SucceedsOnceConnected ==
  \A w \in Workers :
    (pc[w] = "done" /\ conn[w] # 0 /\ SafeAndValid(w))
    => resp[w] = Response(200, "", <<>>, ResultPayload(req[w].result))

\* A step changes the handler state of one worker at most.
Local(w) == <<pc[w], req[w], conn[w], resp[w], rows[w]>>
StepsAreLocal ==
  \A w1, w2 \in Workers :
    (Local(w1)' # Local(w1) /\ Local(w2)' # Local(w2)) => w1 = w2

\* The order of the places of a handler.
Rank(p) ==
  CASE p = "idle" -> 0 [] p = "validate" -> 1 [] p = "connect" -> 2 [] p = "execute" -> 3
    [] p = "fetch" -> 4 [] p = "finally" -> 5 [] OTHER -> 6

\* A handler that has validated its request can always take its next step
\* (it never waits for another request), and each step of a handler takes
\* it further towards "done".
NeverBlocked == \A w \in Workers : (pc[w] \notin {"idle", "validate", "done"}) => ENABLED DbStep(w)
StepsAdvance ==
  \A w \in Workers :
    (pc[w] \notin {"idle", "done"} /\ Local(w)' # Local(w)) => Rank(pc[w]') > Rank(pc[w])

PoolCapacity == NumWorkers - 1
C8_BoundedConnections == Cardinality(live) <= PoolCapacity

\* C9 (as claimed): a completed execute_query is answered 4xx exactly for a
\* validation failure (missing, empty or malformed query input, or a
\* classifier rejection), 5xx only when connecting or executing the
\* accepted statement failed, and 200 otherwise.
ValidationFailure(w) ==
  \/ req[w].body \in {"notjson", "nokey", "nonstring"}
  \/ QueryOf(w) = <<>>
  \/ ~is_query_safe(QueryOf(w)).safe
C9_ResponseClasses ==
  \A w \in Workers :
    (req[w].op = "execute_query" /\ pc[w] = "done") =>
      /\ ValidationFailure(w) => resp[w].status \in 400..499
      /\ resp[w].status \in 500..599 => (~ValidationFailure(w) /\ (conn[w] = 0 \/ req[w].engine # "ok"))
      /\ (~ValidationFailure(w) /\ conn[w] # 0 /\ req[w].engine = "ok") => resp[w].status = 200

\* The text form Python gives each value of the rows scenario.
ExpectedText(v) ==
  CASE v = PyInt(1) -> "1"
    [] v = PyInt(12) -> "12"
    [] v = PyStr("None") -> "None"
    [] v = PyStr("null") -> "null"
    [] OTHER -> "?"

\* C10: a successful execute_query returns count equal to the number of
\* rows fetched, the rows in fetch order with the keys in their order, every
\* cell that is not None as its string form and every None as null (not a
\* string), and columns equal to the keys of the first row; with no row it
\* returns columns = [], rows = [], count = 0.
C10_ResultShape ==
  \A w \in Workers :
    (req[w].op = "execute_query" /\ resp[w].status = 200) =>
      LET fetched == req[w].result
          out == resp[w].payload
      IN /\ out.count = Len(fetched)
         /\ Len(out.rows) = Len(fetched)
         /\ \A i \in DOMAIN fetched :
              /\ Len(out.rows[i]) = Len(fetched[i])
              /\ \A j \in DOMAIN fetched[i] :
                   /\ out.rows[i][j].k = fetched[i][j].k
                   /\ out.rows[i][j].v.null = (fetched[i][j].v = PyNone)
                   /\ fetched[i][j].v # PyNone => out.rows[i][j].v.s = ExpectedText(fetched[i][j].v)
         /\ fetched # <<>> => out.columns = [j \in DOMAIN fetched[1] |-> fetched[1][j].k]
         /\ fetched = <<>> => out = [columns |-> <<>>, rows |-> <<>>, count |-> 0]

C10_Witness ==
  \E w \in Workers :
    /\ req[w].op = "execute_query" /\ pc[w] = "done" /\ resp[w].status = 200
    /\ req[w].result = << <<Cell("y", PyNone), Cell("x", PyStr("None"))>>,
                          <<Cell("y", PyInt(12)), Cell("x", PyNone)>> >>
    /\ resp[w].payload.columns = <<"y", "x">>
    /\ resp[w].payload.count = 2
====
